---- MODULE Spec2Model ----
(***************************************************************************)
(* Model of app.py: the Streamlit dashboard that joins the meat            *)
(* consumption table with the GDP table (load_data), filters the merged    *)
(* table by the countries chosen in the multiselect, and renders charts    *)
(* and a per-country narrative.  Every widget interaction re-runs the      *)
(* script from top to bottom; load_data is memoized by st.cache_data.      *)
(*                                                                         *)
(* A table (DataFrame) is a sequence of rows; a row is a function from     *)
(* column names to cell values.  A missing cell (NaN) is Null.             *)
(***************************************************************************)
EXTENDS Integers, Sequences, FiniteSets, TLC

\* ------------------------------------------------------------------ bounds
\* Quantities in the input files range over 1..MaxQty.
MaxQty == 2

\* ------------------------------------------------------- program constants
\* NaN: a missing cell.  It compares false with everything (see Gt).
Null == -1

\* The raw Year field is held in fixed point, YearScale units per year, so
\* that 2020 and 2020.0 are the same raw value and astype(int) truncates.
YearScale == 10

\* The snapshot year of the bar charts.
SnapshotYear == 2020

GdpLabel == "GDP per capita, PPP (constant 2017 international $)"

meat_columns ==
    <<"Poultry", "Beef", "Sheep and goat", "Pork", "Other meats", "Fish and seafood">>

meat_types ==
    <<"Poultry", "Beef", "Sheep and goat", "Pork", "Other meats", "Fish and seafood">>

correlation_columns ==
    <<"GDP_per_capita", "Total_meat_consumption", "Poultry", "Beef",
      "Sheep and goat", "Pork", "Other meats", "Fish and seafood">>

\* The allow-list of load_data.
allowed_countries == <<"United States", "Germany", "India", "Nigeria">>

\* The default of the multiselect.
default_countries == <<"United States", "India", "Germany", "Nigeria">>

\* ------------------------------------------------------------ sequences
Range(s) == {s[i] : i \in DOMAIN s}

\* Series.isin(values) followed by boolean indexing; values is the set of
\* the elements of the list given to isin.
IsIn(t, col, values) ==
    SelectSeq(t, LAMBDA row : row[col] \in values)

\* df[df[col] == v]
WhereEq(t, col, v) ==
    SelectSeq(t, LAMBDA row : row[col] = v)

RECURSIVE UniqueFrom(_, _)
\* The values of `seen` followed by the values of s not met before.
UniqueFrom(s, seen) ==
    IF s = <<>> THEN seen
    ELSE UniqueFrom(Tail(s),
                    IF Head(s) \in Range(seen) THEN seen ELSE Append(seen, Head(s)))

\* Series.unique(): the distinct values in order of first appearance.
Unique(s) == UniqueFrom(s, <<>>)

Column(t, col) == [i \in DOMAIN t |-> t[i][col]]

\* df[cols]: the projection of every row on the given columns.
Project(t, cols) ==
    [i \in DOMAIN t |-> [k \in Range(cols) |-> t[i][k]]]

\* ------------------------------------------------------------ load_data
\* DataFrame.rename(columns={old: new}).
Rename(t, old, new) ==
    [i \in DOMAIN t |->
        [k \in (DOMAIN t[i] \ {old}) \cup {new} |->
            IF k = new THEN t[i][old] ELSE t[i][k]]]

\* astype(int) of one raw Year value: truncation.
ToInt(y) == y \div YearScale

\* df['Year'] = df['Year'].astype(int)
AsTypeInt(t) ==
    [i \in DOMAIN t |-> [t[i] EXCEPT !["Year"] = ToInt(@)]]

\* Faulty variant of Matches: the join compares the country alone.
Matches_EntityOnly(l, right) ==
    SelectSeq(right, LAMBDA r : r["Entity"] = l["Entity"])

\* The rows of `right` whose key equals that of the left row l, in order.
Matches(l, right) ==
    SelectSeq(right, LAMBDA r : r["Entity"] = l["Entity"] /\ r["Year"] = l["Year"])

\* One joined row: the left row extended by the right row's other columns.
JoinRow(l, r) ==
    [k \in DOMAIN l \cup DOMAIN r |-> IF k \in DOMAIN l THEN l[k] ELSE r[k]]

RECURSIVE Merge(_, _)
\* pd.merge(left, right, on=['Entity', 'Year'], how='inner'): for each left
\* row in order, one row per matching right row.
Merge(left, right) ==
    IF left = <<>> THEN <<>>
    ELSE LET m == Matches(Head(left), right)
         IN  [j \in DOMAIN m |-> JoinRow(Head(left), m[j])]
             \o Merge(Tail(left), right)

RECURSIVE SumKeepNa(_)
\* Faulty variant of SumSkipNa: skipna=False, one NaN cell makes the sum NaN.
SumKeepNa(cells) ==
    IF cells = <<>> THEN 0
    ELSE IF Head(cells) = Null \/ Null \in Range(Tail(cells)) THEN Null
    ELSE Head(cells) + SumKeepNa(Tail(cells))

RECURSIVE SumSkipNa(_)
\* Series.sum(skipna=True) of a sequence of cells: NaN cells are skipped and
\* the empty sum is 0.
SumSkipNa(cells) ==
    IF cells = <<>> THEN 0
    ELSE (IF Head(cells) = Null THEN 0 ELSE Head(cells)) + SumSkipNa(Tail(cells))

\* merged_data['Total_meat_consumption'] = merged_data[meat_columns].sum(axis=1, skipna=True)
WithTotal(t) ==
    [i \in DOMAIN t |->
        [k \in DOMAIN t[i] \cup {"Total_meat_consumption"} |->
            IF k = "Total_meat_consumption"
            THEN SumSkipNa([c \in DOMAIN meat_columns |-> t[i][meat_columns[c]]])
            ELSE t[i][k]]]

\* The inner join of the two tables after the rename and the coercion.
merged_data(meat, gdp) ==
    Merge(AsTypeInt(meat),
          Project(AsTypeInt(Rename(gdp, GdpLabel, "GDP_per_capita")),
                  <<"Entity", "Year", "GDP_per_capita">>))

\* Faulty variant of load_data: the allow-list filter is left out.
load_data_Unrestricted(meat, gdp) == WithTotal(merged_data(meat, gdp))

\* The body of load_data.
load_data(meat, gdp) ==
    IsIn(WithTotal(merged_data(meat, gdp)), "Entity", Range(allowed_countries))

\* ------------------------------------------------------------ rendering
\* One trace per value of the color column, in the data's row order; a
\* trace is the sequence of its (x, y) points.  Null y values stay in the
\* trace as gaps.
Traces(data, x, y) ==
    [c \in Range(Column(data, "Entity")) |->
        LET rows == WhereEq(data, "Entity", c)
        IN  [i \in DOMAIN rows |-> <<rows[i][x], rows[i][y]>>]]

px_line(data, x, y) ==
    [kind |-> "line", x |-> x, y |-> y, trendline |-> "", traces |-> Traces(data, x, y)]

px_scatter(data, x, y) ==
    [kind |-> "scatter", x |-> x, y |-> y, trendline |-> "ols", traces |-> Traces(data, x, y)]

px_bar(data, x, y) ==
    [kind |-> "bar", x |-> x, y |-> y, trendline |-> "", traces |-> Traces(data, x, y)]

\* A figure that has not been drawn.
NoFigure == [kind |-> "", x |-> "", y |-> "", trendline |-> "", traces |-> <<>>]

\* Faulty variant of IsNullAll: isnull().any(), one NaN is enough.
IsNullAny(cells) == \E i \in DOMAIN cells : cells[i] = Null

\* Series.isnull().all(): true of the empty series.
IsNullAll(cells) == \A i \in DOMAIN cells : cells[i] = Null

\* a > b on floats: false as soon as one side is NaN.
Gt(a, b) == a # Null /\ b # Null /\ a > b

\* Faulty variant of trend: the comparison is not strict.
trend_NonStrict(start_value, end_value) ==
    IF Gt(end_value, start_value) \/ (end_value # Null /\ end_value = start_value)
    THEN "increased" ELSE "decreased"

\* "increased" if end_value > start_value else "decreased"
trend(start_value, end_value) ==
    IF Gt(end_value, start_value) THEN "increased" ELSE "decreased"

\* One pass of the insights loop: the line written for one country.
InsightLine(filtered, country, meat) ==
    LET country_data == WhereEq(filtered, "Entity", country)
        values == Column(country_data, meat)
        years == Column(country_data, "Year")
    IN  IF IsNullAll(values)
        THEN [kind |-> "no_data", country |-> country, meat |-> meat,
              trend |-> "", start_value |-> Null, start_year |-> Null,
              end_value |-> Null, end_year |-> Null]
        ELSE [kind |-> "trend", country |-> country, meat |-> meat,
              trend |-> trend(values[1], values[Len(values)]),
              start_value |-> values[1], start_year |-> years[1],
              end_value |-> values[Len(values)], end_year |-> years[Len(years)]]

\* Faulty variant of Insights: an empty selection writes a "no data" line.
Insights_NoDataWhenEmpty(filtered, selected, meat) ==
    IF selected = {}
    THEN {[kind |-> "no_data", country |-> "", meat |-> meat,
           trend |-> "", start_value |-> Null, start_year |-> Null,
           end_value |-> Null, end_year |-> Null]}
    ELSE {InsightLine(filtered, c, meat) : c \in selected}

\* The insights loop: one line per selected country.
Insights(filtered, selected, meat) ==
    {InsightLine(filtered, c, meat) : c \in selected}

\* A static block of narrative text.
StaticLine(kind, meat) ==
    [kind |-> kind, country |-> "", meat |-> meat,
     trend |-> "", start_value |-> Null, start_year |-> Null,
     end_value |-> Null, end_year |-> Null]

\* The "Analysis Based on Selection" section: the header, the insight lines
\* and the closing "Explore more" block.
Narrative(filtered, selected, meat) ==
    {StaticLine("header", meat)}
        \cup Insights(filtered, selected, meat)
        \cup {StaticLine("explore_more", "")}

\* st.multiselect raises when a default value is not among the options.
MultiselectAccepts(options, default) == Range(default) \subseteq Range(options)

\* ---------------------------------------------------------- input files
\* The country whose rows vary.
VariedCountry == "Germany"

Years == {2019, 2020}

ColumnIndex(col) == CHOOSE i \in DOMAIN meat_columns : meat_columns[i] = col

\* A row of the meat file: the categories take the distinct values q, q+1,
\* ..., q+5, except those of `nulls`, which are missing.
MeatRow(country, year, q, nulls) ==
    [k \in {"Entity", "Year"} \cup Range(meat_columns) |->
        IF k = "Entity" THEN country
        ELSE IF k = "Year" THEN year * YearScale
        ELSE IF k \in nulls THEN Null
        ELSE q + ColumnIndex(k) - 1]

\* A row of the GDP file.
GdpRow(country, year, g) ==
    [k \in {"Entity", "Year", GdpLabel} |->
        IF k = "Entity" THEN country
        ELSE IF k = "Year" THEN year * YearScale
        ELSE g]

\* The rows every meat file has: complete rows, rows with one category
\* missing, a country outside the allow-list, and a key (India, 2019) the
\* GDP file lacks.
FixedMeatRows ==
    << MeatRow("United States", 2020, 1, {}),
       MeatRow("France", 2020, 1, {}),
       MeatRow("India", 2019, 2, {}),
       MeatRow("India", 2020, 1, {"Beef"}),
       MeatRow("Nigeria", 2020, 1, {"Pork"}) >>

\* The rows of the varied country: either year, complete with quantity q
\* or with every category missing.
VariedMeatRows ==
    {MeatRow(VariedCountry, y, q, n) :
        y \in Years, q \in 1..MaxQty, n \in {{}, Range(meat_columns)}}

\* The varied country has no row, one row, or a first and a last row.
VariedRowLists ==
    {<<>>} \cup {<<r>> : r \in VariedMeatRows}
           \cup {<<r1, r2>> : r1 \in VariedMeatRows, r2 \in VariedMeatRows}

\* The meat files: the first row of the varied country, the fixed rows, then
\* the varied country's last row.
MeatFiles ==
    {(IF v = <<>> THEN <<>> ELSE <<Head(v)>>)
       \o FixedMeatRows
       \o (IF v = <<>> THEN <<>> ELSE Tail(v))
     : v \in VariedRowLists}

\* The GDP file: a row for every key of the fixed meat rows but (India,
\* 2019), a key (Nigeria, 2019) the meat file lacks, and both years of the
\* varied country, the later year first.
GdpFiles ==
    {<< GdpRow("United States", 2020, 3),
        GdpRow("France", 2020, 3),
        GdpRow("India", 2020, 1),
        GdpRow("Nigeria", 2019, 1),
        GdpRow("Nigeria", 2020, 1),
        GdpRow(VariedCountry, 2020, 3),
        GdpRow(VariedCountry, 2019, 2) >>}

\* ------------------------------------------------------------------ state
VARIABLES
    meat_file,          \* 'Consumption of meat per capita.csv'
    gdp_file,           \* 'GDP per capita PPP.csv'
    cache,              \* st.cache_data's entry for load_data: <<>> or <<table>>
    load_calls,         \* how many times the body of load_data has run
    status,             \* "idle", "ok", or "error" (the script raised)
    df,
    selected_countries, \* the options chosen in the multiselect, as a set
    selected_meat,
    filtered_df,
    fig,
    narrative,          \* the lines of the analysis section, as a set
    gdp_fig,
    comparison_fig,
    latest_year_df,
    bar_fig,
    corr_input,         \* df[correlation_columns], the frame corr() is called on
    pork_fig,
    sheep_goat_fig,
    beef_fig,
    other_meats_fig

files == <<meat_file, gdp_file>>

rendered == <<filtered_df, fig, narrative, gdp_fig, comparison_fig, latest_year_df,
              bar_fig, corr_input, pork_fig, sheep_goat_fig, beef_fig, other_meats_fig>>

vars == <<meat_file, gdp_file, cache, load_calls, status, df, selected_countries,
          selected_meat, filtered_df, fig, narrative, gdp_fig, comparison_fig,
          latest_year_df, bar_fig, corr_input, pork_fig, sheep_goat_fig, beef_fig,
          other_meats_fig>>

Init ==
    /\ meat_file \in MeatFiles
    /\ gdp_file \in GdpFiles
    /\ cache = <<>>
    /\ load_calls = 0
    /\ status = "idle"
    /\ df = <<>>
    /\ selected_countries = {}
    /\ selected_meat = ""
    /\ filtered_df = <<>>
    /\ fig = NoFigure
    /\ narrative = {}
    /\ gdp_fig = NoFigure
    /\ comparison_fig = NoFigure
    /\ latest_year_df = <<>>
    /\ bar_fig = NoFigure
    /\ corr_input = <<>>
    /\ pork_fig = NoFigure
    /\ sheep_goat_fig = NoFigure
    /\ beef_fig = NoFigure
    /\ other_meats_fig = NoFigure

\* ------------------------------------------------------------- the script
\* Faulty variant of CacheHit: the decorator is missing, every run is a miss.
CacheHit_Never(entry) == FALSE

\* @st.cache_data: a hit returns the stored table; a miss runs the body.
CacheHit(entry) == entry # <<>>

CachedLoad(entry) ==
    IF CacheHit(entry) THEN entry[1] ELSE load_data(meat_file, gdp_file)

\* Faulty variant of FilteredView: the filter uses the default list, not the selection.
FilteredView_Default(table, selected) ==
    IsIn(table, "Entity", Range(default_countries))

\* Faulty variant of FilteredView: an empty selection is taken to mean every country.
FilteredView_AllWhenEmpty(table, selected) ==
    IF selected = {} THEN table ELSE IsIn(table, "Entity", selected)

\* filtered_df = df[df["Entity"].isin(selected_countries)]
FilteredView(table, selected) == IsIn(table, "Entity", selected)

\* Faulty variant of LatestYear: the latest year the FilteredView holds.
LatestYear_Available(filtered) ==
    IF filtered = <<>> THEN <<>>
    ELSE WhereEq(filtered, "Year",
                 CHOOSE y \in Range(Column(filtered, "Year")) :
                     \A z \in Range(Column(filtered, "Year")) : y >= z)

\* latest_year_df = filtered_df[filtered_df['Year'] == 2020]
LatestYear(filtered) == WhereEq(filtered, "Year", SnapshotYear)

\* Faulty variant of BarColumn: the chart follows the selectbox.
BarColumn_Selected(meat) == meat

\* The column the snapshot bar chart plots.
BarColumn(meat) == "Poultry"

\* Faulty variant of CorrInput: the heatmap is computed from the FilteredView.
CorrInput_Filtered(table, filtered) == Project(filtered, correlation_columns)

\* The frame the correlation matrix is computed from.
CorrInput(table, filtered) == Project(table, correlation_columns)

\* One run of the script, from the top to the bottom, with the widgets
\* holding (selected, meat).
Script(selected, meat) ==
    /\ df' = CachedLoad(cache)
    /\ cache' = <<df'>>
    /\ load_calls' = IF CacheHit(cache) THEN load_calls ELSE load_calls + 1
    /\ UNCHANGED files
    /\ IF ~MultiselectAccepts(Unique(Column(df', "Entity")), default_countries)
       THEN /\ status' = "error"
            /\ selected_countries' = {}
            /\ selected_meat' = ""
            /\ filtered_df' = <<>>
            /\ fig' = NoFigure
            /\ narrative' = {}
            /\ gdp_fig' = NoFigure
            /\ comparison_fig' = NoFigure
            /\ latest_year_df' = <<>>
            /\ bar_fig' = NoFigure
            /\ corr_input' = <<>>
            /\ pork_fig' = NoFigure
            /\ sheep_goat_fig' = NoFigure
            /\ beef_fig' = NoFigure
            /\ other_meats_fig' = NoFigure
       ELSE /\ status' = "ok"
            /\ selected_countries' = selected
            /\ selected_meat' = meat
            /\ filtered_df' = FilteredView(df', selected_countries')
            /\ fig' = px_line(filtered_df', "Year", selected_meat')
            /\ narrative' = Narrative(filtered_df', selected_countries', selected_meat')
            /\ gdp_fig' = px_line(filtered_df', "Year", "GDP_per_capita")
            /\ comparison_fig' =
                   px_scatter(filtered_df', "GDP_per_capita", "Total_meat_consumption")
            /\ latest_year_df' = LatestYear(filtered_df')
            /\ bar_fig' = px_bar(latest_year_df', "Entity", BarColumn(selected_meat'))
            /\ corr_input' = CorrInput(df', filtered_df')
            /\ pork_fig' = px_bar(latest_year_df', "Entity", "Pork")
            /\ sheep_goat_fig' = px_bar(latest_year_df', "Entity", "Sheep and goat")
            /\ beef_fig' = px_bar(latest_year_df', "Entity", "Beef")
            /\ other_meats_fig' = px_bar(latest_year_df', "Entity", "Other meats")

\* A browser opens (or reloads) the page: the widgets hold their defaults.
NewSession ==
    Script(Range(default_countries), meat_types[1])

\* The user adds a country to the multiselect, or removes one.
ToggleCountry(c) ==
    /\ status = "ok"
    /\ c \in Range(Column(df, "Entity"))
    /\ Script(IF c \in selected_countries
              THEN selected_countries \ {c}
              ELSE selected_countries \cup {c},
              selected_meat)

\* The user clears the multiselect.
ClearCountries ==
    /\ status = "ok"
    /\ selected_countries # {}
    /\ Script({}, selected_meat)

\* The user picks another meat type in the selectbox.
SelectMeat(m) ==
    /\ status = "ok"
    /\ m # selected_meat
    /\ Script(selected_countries, m)

Next ==
    \/ NewSession
    \/ \E c \in Range(allowed_countries) : ToggleCountry(c)
    \/ ClearCountries
    \/ \E m \in Range(meat_types) : SelectMeat(m)

Spec == Init /\ [][Next]_vars

\* ----------------------------------------------------------- properties
Ran == status # "idle"

Ok == status = "ok"

\* The script raises only where st.multiselect rejects its default.
OnlyDefaultsRaise ==
    status = "error" =>
        ~(Range(default_countries) \subseteq {df[i]["Entity"] : i \in DOMAIN df})

\* The (country, year) keys of a table whose Year column holds integers.
Keys(t) == {<<t[i]["Entity"], t[i]["Year"]>> : i \in DOMAIN t}

\* An input file contains a row with exactly the key k.
FileHasKey(file, k) ==
    \E i \in DOMAIN file :
        file[i]["Entity"] = k[1] /\ file[i]["Year"] = k[2] * YearScale

\* The keys an input file holds, as (country, whole year) pairs.
FileKeys(file) ==
    {k \in {file[i]["Entity"] : i \in DOMAIN file} \X Years : FileHasKey(file, k)}

\* C1: a (country, year) key is in the merged result only if both input
\* tables hold a row with exactly that key, and a key held by exactly one of
\* the two tables is absent from the merged result.
C1_JoinExactness ==
    Ran =>
        /\ \A k \in Keys(df) : FileHasKey(meat_file, k) /\ FileHasKey(gdp_file, k)
        /\ \A k \in FileKeys(meat_file) \cup FileKeys(gdp_file) :
               (FileHasKey(meat_file, k) # FileHasKey(gdp_file, k)) => k \notin Keys(df)

\* The merged result holds a key of both tables while one key is in the
\* meat file alone and another in the GDP file alone.
C1_Witness ==
    /\ Ok
    /\ \E k \in Keys(df) : k[1] = VariedCountry
    /\ \E k \in FileKeys(meat_file) : ~FileHasKey(gdp_file, k)
    /\ \E k \in FileKeys(gdp_file) : k[1] = VariedCountry /\ ~FileHasKey(meat_file, k)

RECURSIVE SumOver(_, _)
\* The sum of row[c] over the columns c of the set S.
SumOver(S, row) ==
    IF S = {} THEN 0
    ELSE LET c == CHOOSE x \in S : TRUE
         IN  row[c] + SumOver(S \ {c}, row)

NonNullColumns(row) == {c \in Range(meat_columns) : row[c] # Null}

\* C2: in every merged record total_meat_consumption is the sum of the
\* non-null values among the six category columns; with all six null it is
\* 0 and never null.
C2_SumNullSafety ==
    \A i \in DOMAIN df :
        /\ df[i]["Total_meat_consumption"] = SumOver(NonNullColumns(df[i]), df[i])
        /\ df[i]["Total_meat_consumption"] # Null
        /\ NonNullColumns(df[i]) = {} => df[i]["Total_meat_consumption"] = 0

\* The merged table holds a record with all six categories null, one with
\* some of them null, and one with none.
C2_Witness ==
    /\ \E i \in DOMAIN df : NonNullColumns(df[i]) = {}
    /\ \E i \in DOMAIN df :
           NonNullColumns(df[i]) \notin {{}, Range(meat_columns)}
    /\ \E i \in DOMAIN df : NonNullColumns(df[i]) = Range(meat_columns)

\* How many rows of table t equal r.
Count(t, r) == Cardinality({i \in DOMAIN t : t[i] = r})

\* C3: every record of the FilteredView has its country among the selected
\* countries, and the FilteredView holds exactly the merged records whose
\* country is selected, unaltered.
C3_FilterContainment ==
    Ok =>
        /\ \A i \in DOMAIN filtered_df :
               filtered_df[i]["Entity"] \in selected_countries
        /\ \A r \in Range(df) \cup Range(filtered_df) :
               Count(filtered_df, r) =
                   IF r["Entity"] \in selected_countries THEN Count(df, r) ELSE 0

\* Some selected country has records and some country of the merged table
\* is not selected.
C3_Witness ==
    /\ Ok
    /\ selected_countries # Range(default_countries)
    /\ filtered_df # <<>>
    /\ Len(filtered_df) < Len(df)

\* C4: whatever the selection, the frame given to the correlation heatmap
\* is the full merged table of the preparation step (its eight correlation
\* columns), never the FilteredView.
C4_HeatmapSelectionIndependence ==
    Ok =>
        LET full == load_data(meat_file, gdp_file)
        IN  corr_input =
                [i \in DOMAIN full |-> [k \in Range(correlation_columns) |-> full[i][k]]]

\* The heatmap has been drawn under a selection that leaves records out and
\* with a meat type other than the default.
C4_Witness ==
    /\ Ok
    /\ Len(filtered_df) < Len(df)
    /\ selected_meat # meat_types[1]
    /\ corr_input # <<>>

\* The bars of a snapshot chart of column col: for each country of the
\* FilteredView with a record of the snapshot year, its (country, quantity)
\* points.
SnapshotBars(col) ==
    LET rows == {i \in DOMAIN filtered_df : filtered_df[i]["Year"] = SnapshotYear}
    IN  [c \in {filtered_df[i]["Entity"] : i \in rows} |->
            LET mine == SelectSeq(filtered_df,
                            LAMBDA r : r["Entity"] = c /\ r["Year"] = SnapshotYear)
            IN  [j \in DOMAIN mine |-> <<c, mine[j][col]>>]]

\* C5 as stated: the snapshot bar chart plots the quantity of the selected
\* meat category per country for the FilteredView of the snapshot year.
C5_Original ==
    Ok => bar_fig.y = selected_meat /\ bar_fig.traces = SnapshotBars(selected_meat)

\* C5, amended: the snapshot bar chart plots the Poultry quantity per
\* country for the FilteredView of the snapshot year, whatever the selected
\* meat category.
C5_SnapshotBarIsPoultry ==
    Ok => bar_fig.y = "Poultry" /\ bar_fig.traces = SnapshotBars("Poultry")

\* The chart has bars while another meat type than Poultry is selected.
C5_Witness ==
    /\ Ok
    /\ selected_meat # "Poultry"
    /\ DOMAIN bar_fig.traces # {}

\* The insight lines of the narrative.
InsightLines == {l \in narrative : l.kind \in {"trend", "no_data"}}

\* The rows of the FilteredView of a country with an observed value of meat.
Observed(country, meat) ==
    {i \in DOMAIN filtered_df :
        filtered_df[i]["Entity"] = country /\ filtered_df[i][meat] # Null}

\* C6: for every selected country with an observed value of the selected
\* category, the trend sentence reports the first-by-year and last-by-year
\* observed values, with their years.
C6_NarrativeEndpoints ==
    Ok =>
        \A c \in selected_countries :
            LET obs == Observed(c, selected_meat)
            IN  obs # {} =>
                    \E l \in InsightLines, a \in obs, b \in obs :
                        /\ l.kind = "trend" /\ l.country = c
                        /\ \A o \in obs : filtered_df[a]["Year"] <= filtered_df[o]["Year"]
                        /\ \A o \in obs : filtered_df[b]["Year"] >= filtered_df[o]["Year"]
                        /\ l.start_year = filtered_df[a]["Year"]
                        /\ l.start_value = filtered_df[a][selected_meat]
                        /\ l.end_year = filtered_df[b]["Year"]
                        /\ l.end_value = filtered_df[b][selected_meat]

\* C7: the direction is "increased" exactly when last > first and
\* "decreased" otherwise; equal values are reported as "decreased".
C7_TrendBoundary ==
    Ok =>
        \A l \in InsightLines :
            l.kind = "trend" =>
                /\ l.trend = "increased" <=>
                       (l.start_value # Null /\ l.end_value # Null
                            /\ l.end_value > l.start_value)
                /\ l.trend # "increased" => l.trend = "decreased"

\* A country whose first and last rows are two records with the same
\* observed value is reported as "decreased".
C7_Witness ==
    /\ Ok
    /\ \E l \in InsightLines :
           /\ l.kind = "trend"
           /\ l.start_year # l.end_year
           /\ l.start_value # Null
           /\ l.start_value = l.end_value
           /\ l.trend = "decreased"

\* C8 as stated: with no country selected the run is not an error and the
\* narrative holds an explicit "no data" line.
C8_Original ==
    /\ OnlyDefaultsRaise
    /\ (Ok /\ selected_countries = {}) =>
           \E l \in narrative : l.kind = "no_data"

\* C8, amended: with no country selected the run is not an error and the
\* narrative holds no per-country line at all, only its static header and
\* closing text.
C8_EmptySelectionNarrative ==
    /\ OnlyDefaultsRaise
    /\ (Ok /\ selected_countries = {}) =>
           /\ InsightLines = {}
           /\ {l.kind : l \in narrative} = {"header", "explore_more"}

\* The script has run with no country selected.
C8_Witness ==
    /\ Ok
    /\ selected_countries = {}
    /\ narrative # {}
    /\ df # <<>>

CountryCharts ==
    {fig, gdp_fig, comparison_fig, bar_fig,
     pork_fig, sheep_goat_fig, beef_fig, other_meats_fig}

\* C9: with no country selected every country-scoped chart has no data
\* series, the run is not an error, and the heatmap is computed over the
\* full merged table.
C9_EmptySelectionCharts ==
    /\ OnlyDefaultsRaise
    /\ (Ok /\ selected_countries = {}) =>
           /\ \A chart \in CountryCharts : chart.kind # "" /\ DOMAIN chart.traces = {}
           /\ Len(corr_input) = Len(load_data(meat_file, gdp_file))
           /\ \A i \in DOMAIN corr_input :
                  \A k \in Range(correlation_columns) : corr_input[i][k] = df[i][k]

\* The charts have been drawn with no country selected over a merged table
\* that has records.
C9_Witness ==
    /\ Ok
    /\ selected_countries = {}
    /\ fig.kind = "line"
    /\ corr_input # <<>>

\* C10: over any sequence of re-runs the body of load_data is executed at
\* most once, and every run receives the merged table a fresh computation
\* on the input files gives, the one the first run computed.
C10_MemoizedPreparation ==
    /\ load_calls <= 1
    /\ Ran => /\ load_calls = 1
              /\ df = load_data(meat_file, gdp_file)
              /\ cache = <<df>>

\* The script has run again after a selection change.
C10_Witness ==
    /\ Ok
    /\ load_calls = 1
    /\ selected_countries # Range(default_countries)
    /\ selected_meat # meat_types[1]
    /\ df # <<>>

\* The inner join of the two input files, with its derived total, before
\* any restriction to the allow-list.
InnerJoin == WithTotal(merged_data(meat_file, gdp_file))

Countries(t) == {t[i]["Entity"] : i \in DOMAIN t}

\* C11 as stated: the preparation step has a flag; with the restriction off
\* its table holds every country of the inner join, with it on only records
\* of the four allow-listed countries.  load_data takes no argument, so
\* under either setting of such a flag the table is df.
C11_Original ==
    Ran =>
        \A restrict_to_fixed_countries \in BOOLEAN :
            IF restrict_to_fixed_countries
            THEN Countries(df) \subseteq Range(allowed_countries)
            ELSE Countries(df) = Countries(InnerJoin)

\* C11, amended: there is no flag; the preparation step always restricts,
\* and its table holds exactly the records of the inner join whose country
\* is one of the four allow-listed countries.
C11_AlwaysRestricted ==
    Ran =>
        /\ Countries(df) \subseteq {"United States", "Germany", "India", "Nigeria"}
        /\ \A r \in Range(InnerJoin) \cup Range(df) :
               Count(df, r) =
                   IF r["Entity"] \in {"United States", "Germany", "India", "Nigeria"}
                   THEN Count(InnerJoin, r) ELSE 0

\* The inner join holds a country outside the allow-list, and the table
\* returned holds records.
C11_Witness ==
    /\ Ok
    /\ Countries(InnerJoin) \ Range(allowed_countries) # {}
    /\ VariedCountry \in Countries(df)

\* The insight lines written for a country.
LinesOf(country) == {l \in InsightLines : l.country = country}

\* C12: for every selected country one line is written; it is the "No
\* available data" line, with no trend computed, if and only if every value
\* of the selected category for that country in the FilteredView is null (a
\* country without rows included); the script raises in neither case.
C12_AllNullMetric ==
    /\ OnlyDefaultsRaise
    /\ Ok =>
           \A c \in selected_countries :
               /\ Cardinality(LinesOf(c)) = 1
               /\ \A l \in LinesOf(c) :
                      /\ l.kind = "no_data" <=> Observed(c, selected_meat) = {}
                      /\ l.kind = "no_data" => l.trend = ""
                      /\ l.kind = "trend" <=> Observed(c, selected_meat) # {}

\* One selected country has records whose selected category is null
\* throughout while another category is observed, and gets the "no data"
\* line; the varied country has a null and an observed value and gets a
\* trend line.
C12_Witness ==
    /\ Ok
    /\ \E l \in InsightLines :
           /\ l.kind = "no_data"
           /\ \E i \in DOMAIN filtered_df :
                  /\ filtered_df[i]["Entity"] = l.country
                  /\ NonNullColumns(filtered_df[i]) # {}
    /\ \E l \in InsightLines :
           /\ l.kind = "trend"
           /\ l.country = VariedCountry
           /\ \E i \in DOMAIN filtered_df :
                  /\ filtered_df[i]["Entity"] = VariedCountry
                  /\ filtered_df[i][selected_meat] = Null

SnapshotCharts == {bar_fig, pork_fig, sheep_goat_fig, beef_fig, other_meats_fig}

\* C13: the data slice of every snapshot bar chart holds exactly the
\* records of the FilteredView with year 2020; a selected country without a
\* 2020 record has no bar in any of them (no row is added for it), whatever
\* the latest year it has records for.
C13_SnapshotYearSlice ==
    Ok =>
        /\ \A i \in DOMAIN latest_year_df : latest_year_df[i]["Year"] = 2020
        /\ \A r \in Range(filtered_df) \cup Range(latest_year_df) :
               Count(latest_year_df, r) =
                   IF r["Year"] = 2020 THEN Count(filtered_df, r) ELSE 0
        /\ \A chart \in SnapshotCharts :
               /\ chart.kind = "bar"
               /\ chart.traces = SnapshotBars(chart.y)
               /\ \A c \in selected_countries :
                      (\A i \in DOMAIN filtered_df :
                           filtered_df[i]["Entity"] = c => filtered_df[i]["Year"] # 2020)
                          => c \notin DOMAIN chart.traces

\* The varied country is selected and has records, the latest of them
\* before 2020: it has no bar, while another selected country has one.
C13_Witness ==
    /\ Ok
    /\ VariedCountry \in selected_countries
    /\ \E i \in DOMAIN filtered_df : filtered_df[i]["Entity"] = VariedCountry
    /\ \A i \in DOMAIN filtered_df :
           filtered_df[i]["Entity"] = VariedCountry => filtered_df[i]["Year"] < 2020
    /\ VariedCountry \notin DOMAIN pork_fig.traces
    /\ DOMAIN pork_fig.traces # {}

====
